---- MODULE Spec2Model ----
(***************************************************************************)
(* A model of equinox/vmap_pmap.py: axis resolution (_resolve_axes), the   *)
(* batch-map wrapper (_VmapWrapper), the parallel-map wrapper              *)
(* (_PmapWrapper) with its compiled-entry cache (_filter_pmap_cache), and  *)
(* the two lifting calls (filter_vmap, filter_pmap).                       *)
(***************************************************************************)
EXTENDS Integers, Sequences, FiniteSets, TLC

VARIABLES
    rs,            \* one axis resolution: its inputs, its position, its result
    lifted,        \* the last lifting call: its inputs and what it returned
    cache,         \* the process-wide compiled-entry cache: a set of [key, art]
    compileLog,    \* the keys compiled so far, in order (one entry per compilation)
    calls,         \* the wrapper invocations completed so far
    ncalls,        \* how many invocations were made
    th             \* the threads of the concurrent first call

vars == <<rs, lifted, cache, compileLog, calls, ncalls, th>>

\* e evaluated once and handed to Body: the value a Python local holds.
Bind(e, Body(_)) == CHOOSE r \in {Body(x) : x \in {e}} : TRUE

-----------------------------------------------------------------------------
(* Values: the leaves of a pytree.  Every value is a record of the same     *)
(* shape so that any two can be compared.                                   *)

NoV == [kind |-> "nil", n |-> 0, s |-> "", shape |-> <<>>, axes |-> <<>>]

\* A JAX array: shape, dtype, contents (n), and the provenance of each
\* dimension (axes), which a transposition permutes with the shape.
Arr(shape, dtype, v) ==
    [kind |-> "arr", n |-> v, s |-> dtype, shape |-> shape,
     axes |-> [i \in 1..Len(shape) |-> i]]

IntV(k) == [kind |-> "int", n |-> k, s |-> "", shape |-> <<>>, axes |-> <<>>]

StrV(str) == [kind |-> "str", n |-> 0, s |-> str, shape |-> <<>>, axes |-> <<>>]

\* A callable: its name and, for if_array(axis), the axis it carries.
FnV(name, k) == [kind |-> "fn", n |-> k, s |-> name, shape |-> <<>>, axes |-> <<>>]

if_array(axis) == FnV("if_array", axis)

is_array(x) == x.kind \in {"arr", "sds"}

is_array_like(x) == x.kind \in {"arr", "sds", "int"}

\* The result of calling a callable axis spec on a leaf.
ApplyFn(f, x) ==
    CASE f.s = "if_array" -> IF is_array(x) THEN IntV(f.n) ELSE NoV
      [] f.s = "always_none" -> NoV
      [] f.s = "returns_str" -> StrV("axis")
      [] OTHER -> NoV

-----------------------------------------------------------------------------
(* Pytrees: a leaf, None (a node without children), or a tuple of pytrees.  *)
(* A raised exception is carried as a node of its own.                      *)

Leaf(v) == [t |-> "leaf", x |-> v, ch |-> <<>>]

NoneT == [t |-> "none", x |-> NoV, ch |-> <<>>]

Tup(s) == [t |-> "tuple", x |-> NoV, ch |-> s]

RaiseT(exc) == [t |-> "raise", x |-> StrV(exc), ch |-> <<>>]

IsRaise(r) == r.t = "raise"

_is_none(node) == node.t = "none"

\* A value as the pytree it is when it stands at a leaf position.
AsTree(v) == IF v.kind = "nil" THEN NoneT ELSE Leaf(v)

RECURSIVE HasRaise(_)
HasRaise(tree) ==
    \/ tree.t = "raise"
    \/ \E i \in 1..Len(tree.ch) : HasRaise(tree.ch[i])

RECURSIVE FirstRaise(_)
FirstRaise(tree) ==
    IF tree.t = "raise" THEN tree
    ELSE LET bad == {i \in 1..Len(tree.ch) : HasRaise(tree.ch[i])}
             m == CHOOSE i \in bad : \A j \in bad : i <= j
         IN  FirstRaise(tree.ch[m])

\* jtu.tree_map(lambda _: axis_spec, elem): None nodes of elem have no leaves.
RECURSIVE MapConst(_, _)
MapConst(specnode, elem) ==
    CASE elem.t = "leaf" -> specnode
      [] elem.t = "none" -> NoneT
      [] OTHER -> Tup([i \in 1..Len(elem.ch) |-> MapConst(specnode, elem.ch[i])])

\* jtu.tree_map(axis_spec, elem) for a callable axis_spec.
RECURSIVE MapFn(_, _)
MapFn(f, elem) ==
    CASE elem.t = "leaf" -> AsTree(ApplyFn(f, elem.x))
      [] elem.t = "none" -> NoneT
      [] OTHER -> Tup([i \in 1..Len(elem.ch) |-> MapFn(f, elem.ch[i])])

\* A resolution that takes any spec that is no callable as a constant.
_resolve_axis_lenient(axis_spec, elem) ==
    IF axis_spec.t = "leaf" /\ axis_spec.x.kind = "fn"
    THEN MapFn(axis_spec.x, elem)
    ELSE MapConst(axis_spec, elem)

_resolve_axis(axis_spec, elem) ==
    IF axis_spec.t = "none" \/ axis_spec.x.kind = "int"
    THEN MapConst(axis_spec, elem)
    ELSE IF axis_spec.x.kind = "fn"
         THEN MapFn(axis_spec.x, elem)
         ELSE RaiseT("ValueError:axis_spec")

\* The axes spec is a prefix of the value tree (None counts as a spec leaf).
RECURSIVE PrefixOk(_, _)
PrefixOk(spec, val) ==
    IF spec.t \in {"leaf", "none"} THEN TRUE
    ELSE /\ val.t = spec.t
         /\ Len(val.ch) = Len(spec.ch)
         /\ \A i \in 1..Len(spec.ch) : PrefixOk(spec.ch[i], val.ch[i])

RECURSIVE ResolveWalk(_, _)
ResolveWalk(spec, val) ==
    IF spec.t \in {"leaf", "none"} THEN _resolve_axis(spec, val)
    ELSE Tup([i \in 1..Len(spec.ch) |-> ResolveWalk(spec.ch[i], val.ch[i])])

_resolve_axes(pytree, axes_spec) ==
    IF ~PrefixOk(axes_spec, pytree) THEN RaiseT("ValueError:tree_structure")
    ELSE LET r == ResolveWalk(axes_spec, pytree)
         IN  IF HasRaise(r) THEN FirstRaise(r) ELSE r

-----------------------------------------------------------------------------
(* The structure utilities the wrappers use: flatten, filter, partition,    *)
(* combine.                                                                 *)

BoolV(b) == [kind |-> "bool", n |-> IF b THEN 1 ELSE 0, s |-> "", shape |-> <<>>,
             axes |-> <<>>]

RECURSIVE Flatten(_)
Flatten(tree) ==
    CASE tree.t = "leaf" -> <<tree.x>>
      [] tree.t = "none" -> <<>>
      [] OTHER ->
           LET F[i \in 0..Len(tree.ch)] ==
                   IF i = 0 THEN <<>> ELSE F[i - 1] \o Flatten(tree.ch[i])
           IN  F[Len(tree.ch)]

RECURSIVE TreeDef(_)
TreeDef(tree) ==
    CASE tree.t = "leaf" -> Leaf(StrV("*"))
      [] tree.t = "none" -> NoneT
      [] OTHER -> Tup([i \in 1..Len(tree.ch) |-> TreeDef(tree.ch[i])])

\* filter(pytree, predicate, inverse): the leaves whose kind is selected are
\* kept, the others become None.
RECURSIVE FilterKinds(_, _, _)
FilterKinds(tree, kinds, inverse) ==
    CASE tree.t = "leaf" ->
           IF (tree.x.kind \in kinds) # inverse THEN tree ELSE NoneT
      [] tree.t = "none" -> NoneT
      [] OTHER -> Tup([i \in 1..Len(tree.ch) |->
                          FilterKinds(tree.ch[i], kinds, inverse)])

RECURSIVE KeepAll(_, _)
KeepAll(tree, keep) ==
    CASE tree.t = "leaf" -> IF keep THEN tree ELSE NoneT
      [] tree.t = "none" -> NoneT
      [] OTHER -> Tup([i \in 1..Len(tree.ch) |-> KeepAll(tree.ch[i], keep)])

\* filter(pytree, mask, inverse) for a mask that is a tree of booleans and a
\* prefix of pytree; a None in the mask is a prefix of anything and keeps
\* nothing.
RECURSIVE FilterMask(_, _, _)
FilterMask(tree, mask, inverse) ==
    CASE mask.t = "leaf" -> KeepAll(tree, (mask.x.n = 1) # inverse)
      [] mask.t = "none" -> NoneT
      [] OTHER -> Tup([i \in 1..Len(mask.ch) |->
                          FilterMask(tree.ch[i], mask.ch[i], inverse)])

\* combine(a, b): position by position, the first that is not None.
RECURSIVE Combine2(_, _)
Combine2(a, b) ==
    CASE a.t = "leaf" -> a
      [] a.t = "none" -> b
      [] b.t = "tuple" -> Tup([i \in 1..Len(a.ch) |-> Combine2(a.ch[i], b.ch[i])])
      [] OTHER -> a

combine(trees) ==
    LET F[i \in 1..Len(trees)] ==
            IF i = 1 THEN trees[1] ELSE Combine2(F[i - 1], trees[i])
    IN  F[Len(trees)]

\* jtu.tree_map(_is_none, axes) without is_leaf: a None stays None.
RECURSIVE NoneMask_noleaf(_)
NoneMask_noleaf(axes) ==
    CASE axes.t = "leaf" -> Leaf(BoolV(FALSE))
      [] axes.t = "none" -> NoneT
      [] OTHER -> Tup([i \in 1..Len(axes.ch) |-> NoneMask_noleaf(axes.ch[i])])

\* jtu.tree_map(_is_none, axes, is_leaf=_is_none): a boolean at every leaf
\* and at every None.
RECURSIVE NoneMask(_)
NoneMask(axes) ==
    CASE axes.t = "leaf" -> Leaf(BoolV(FALSE))
      [] axes.t = "none" -> Leaf(BoolV(TRUE))
      [] OTHER -> Tup([i \in 1..Len(axes.ch) |-> NoneMask(axes.ch[i])])

\* jtu.tree_map(lambda a: a == i, axes): a boolean at every leaf; a None
\* stays None.
RECURSIVE EqMask(_, _)
EqMask(axes, i) ==
    CASE axes.t = "leaf" -> Leaf(BoolV(axes.x.kind = "int" /\ axes.x.n = i))
      [] axes.t = "none" -> NoneT
      [] OTHER -> Tup([j \in 1..Len(axes.ch) |-> EqMask(axes.ch[j], i)])

-----------------------------------------------------------------------------
(* Arrays under the mapping primitives: a mapped input loses its mapped     *)
(* dimension inside the function, a mapped output gains the batch           *)
(* dimension (provenance 0) at the axis the primitive is told.              *)

NormAxis(a, rank) == IF a < 0 THEN a + rank ELSE a

RemoveAt(seq, k) == [i \in 1..(Len(seq) - 1) |-> IF i < k THEN seq[i] ELSE seq[i + 1]]

InsertAt(seq, k, e) ==
    [i \in 1..(Len(seq) + 1) |->
        IF i < k THEN seq[i] ELSE IF i = k THEN e ELSE seq[i - 1]]

AxisInRange(a, rank) == a >= -rank /\ a < rank

\* The per-instance view of an array mapped at axis a.
Unstack(arr, a) ==
    LET k == NormAxis(a, Len(arr.shape)) + 1
    IN  [arr EXCEPT !.shape = RemoveAt(arr.shape, k), !.axes = RemoveAt(arr.axes, k)]

\* The stacked result: n instances of x along a new dimension at axis a.
\* A Python scalar becomes an array.
Stack(x, a, n) ==
    LET k == NormAxis(a, Len(x.shape) + 1) + 1
    IN  [kind |-> "arr", n |-> x.n, s |-> IF x.kind = "int" THEN "i32" ELSE x.s,
         shape |-> InsertAt(x.shape, k, n), axes |-> InsertAt(x.axes, k, 0)]

\* jnp.swapaxes(array, 0, axis)
SwapSeq(seq, k) ==
    [i \in 1..Len(seq) |-> IF i = 1 THEN seq[k] ELSE IF i = k THEN seq[1] ELSE seq[i]]

_swapaxes(array, axis) ==
    LET k == NormAxis(axis, Len(array.shape)) + 1
    IN  [array EXCEPT !.shape = SwapSeq(array.shape, k), !.axes = SwapSeq(array.axes, k)]

-----------------------------------------------------------------------------
(* The functions that get lifted.  Each takes two positional parameters,    *)
(* x and y; FunOut is what one call returns on the per-instance arguments.  *)

Funs == {"first", "total", "both", "tagged", "boom"}

FunParams(fun) == <<"x", "y">>

FunOut(fun, args) ==
    CASE fun = "first" -> args.ch[1]
      [] fun = "total" -> Leaf([kind |-> "arr", n |-> 0, s |-> "f32", shape |-> <<>>,
                                axes |-> <<>>])
      [] fun = "both" -> Tup(<<args.ch[1], args.ch[2]>>)
      [] fun = "tagged" -> Tup(<<args.ch[1], Leaf(StrV("tag"))>>)
      [] OTHER -> RaiseT("UserError")

-----------------------------------------------------------------------------
(* The mapping primitives' handling of inputs and outputs (the backend).    *)

\* The per-instance view of the mapped inputs: axes is a prefix of dyn, an
\* integer axis unstacks the array.
RECURSIVE MapIn(_, _)
MapIn(dyn, axes) ==
    CASE dyn.t = "leaf" ->
           IF axes.t = "none" THEN dyn
           ELSE IF axes.x.kind = "int" /\ AxisInRange(axes.x.n, Len(dyn.x.shape))
                THEN Leaf(Unstack(dyn.x, axes.x.n))
                ELSE RaiseT("BackendError:in_axes")
      [] dyn.t = "none" -> NoneT
      [] OTHER -> Tup([i \in 1..Len(dyn.ch) |->
                          MapIn(dyn.ch[i], IF axes.t = "tuple" THEN axes.ch[i] ELSE axes)])

\* The sizes of the mapped dimensions of the inputs.
RECURSIVE AxisSizes(_, _)
AxisSizes(dyn, axes) ==
    CASE dyn.t = "leaf" ->
           IF axes.t = "leaf" /\ axes.x.kind = "int"
              /\ AxisInRange(axes.x.n, Len(dyn.x.shape))
           THEN {dyn.x.shape[NormAxis(axes.x.n, Len(dyn.x.shape)) + 1]}
           ELSE {}
      [] dyn.t = "none" -> {}
      [] OTHER -> UNION {AxisSizes(dyn.ch[i], IF axes.t = "tuple" THEN axes.ch[i] ELSE axes)
                            : i \in 1..Len(dyn.ch)}

\* The mapped inputs as the function sees them, or the backend's error.
BackendIn(dyn, axes, axis_size) ==
    LET per == MapIn(dyn, axes)
        sizes == AxisSizes(dyn, axes) \cup (IF axis_size = 0 THEN {} ELSE {axis_size})
    IN  IF HasRaise(per) THEN FirstRaise(per)
        ELSE IF Cardinality(sizes) # 1 THEN RaiseT("BackendError:axis_size")
        ELSE per

BackendSize(dyn, axes, axis_size) ==
    LET sizes == AxisSizes(dyn, axes) \cup (IF axis_size = 0 THEN {} ELSE {axis_size})
    IN  CHOOSE n \in sizes : TRUE

\* Every leaf of a mapped output stacked along axis a.
RECURSIVE StackTree(_, _, _)
StackTree(tree, a, n) ==
    CASE tree.t = "leaf" ->
           IF is_array_like(tree.x) /\ AxisInRange(a, Len(tree.x.shape) + 1)
           THEN Leaf(Stack(tree.x, a, n))
           ELSE RaiseT("BackendError:out_axes")
      [] tree.t = "none" -> NoneT
      [] OTHER -> Tup([i \in 1..Len(tree.ch) |-> StackTree(tree.ch[i], a, n)])

RECURSIVE MaxRank(_)
MaxRank(tree) ==
    CASE tree.t = "leaf" -> Len(tree.x.shape)
      [] tree.t = "none" -> 0
      [] OTHER ->
           LET F[i \in 0..Len(tree.ch)] ==
                   IF i = 0 THEN 0
                   ELSE IF MaxRank(tree.ch[i]) > F[i - 1] THEN MaxRank(tree.ch[i])
                        ELSE F[i - 1]
           IN  F[Len(tree.ch)]

-----------------------------------------------------------------------------
(* The parallel-map wrapper: cache key, compilation, invocation.            *)

RECURSIVE NumLeaves(_)
NumLeaves(def) ==
    CASE def.t = "leaf" -> 1
      [] def.t = "none" -> 0
      [] OTHER ->
           LET F[i \in 0..Len(def.ch)] ==
                   IF i = 0 THEN 0 ELSE F[i - 1] + NumLeaves(def.ch[i])
           IN  F[Len(def.ch)]

RECURSIVE Unflatten(_, _)
Unflatten(def, leaves) ==
    CASE def.t = "leaf" -> Leaf(leaves[1])
      [] def.t = "none" -> NoneT
      [] OTHER ->
           LET off[i \in 0..Len(def.ch)] ==
                   IF i = 0 THEN 0 ELSE off[i - 1] + NumLeaves(def.ch[i])
           IN  Tup([i \in 1..Len(def.ch) |->
                       Unflatten(def.ch[i], SubSeq(leaves, off[i - 1] + 1, off[i]))])

\* A signature that keeps the contents of the array.
ShapeDtypeStruct_values(x) == [x EXCEPT !.kind = "sds"]

\* A signature that forgets the dtype.
ShapeDtypeStruct_shape(x) == [x EXCEPT !.kind = "sds", !.n = 0, !.s = ""]

\* jax.ShapeDtypeStruct(x.shape, x.dtype)
ShapeDtypeStruct(x) == [x EXCEPT !.kind = "sds", !.n = 0]

RECURSIVE StructOf(_)
StructOf(dyn) ==
    CASE dyn.t = "leaf" -> Leaf(ShapeDtypeStruct(dyn.x))
      [] dyn.t = "none" -> NoneT
      [] OTHER -> Tup([i \in 1..Len(dyn.ch) |-> StructOf(dyn.ch[i])])

\* axis_size None is written 0.
maybe_dummy(w) ==
    IF w.axis_size = 0 THEN Leaf(IntV(0))
    ELSE Leaf(Arr(<<w.axis_size>>, "i64", 0))

\* (self._fun, args, maybe_dummy, self._out_axes)
CallTuple(w, args) == Tup(<<Leaf(FnV(w.fun, 0)), args, maybe_dummy(w), w.out_axes>>)

\* partition(..., is_array): the dynamic part.
DynamicOf(w, args) == FilterKinds(CallTuple(w, args), {"arr"}, FALSE)

StaticOf(w, args) == FilterKinds(CallTuple(w, args), {"arr"}, TRUE)

\* The arguments _call hands to _filter_pmap_cache, for in_axes already
\* resolved against args.
CacheKey(w, args, in_axes) ==
    LET both == Tup(<<StaticOf(w, args), StructOf(DynamicOf(w, args))>>)
    IN  [fun_names |-> w.fun,
         leaves |-> Flatten(both),
         treedef |-> TreeDef(both),
         in_axes |-> Tup(<<NoneT, in_axes, Leaf(IntV(0)), NoneT>>),
         axis_name |-> w.axis_name,
         axis_size |-> w.axis_size,
         pmapkwargs |-> w.kwargs]

NoKey ==
    [fun_names |-> "", leaves |-> <<>>, treedef |-> NoneT, in_axes |-> NoneT,
     axis_name |-> "", axis_size |-> 0, pmapkwargs |-> {}]

\* Slots for the non-negative axes only.
OutAxisSlots_nonneg(max_out_size) == [j \in 1..max_out_size |-> j - 1]

\* The output axes the backend is compiled with: one slot per i in [-R, R).
OutAxisSlots(max_out_size) == [j \in 1..(2 * max_out_size) |-> j - 1 - max_out_size]

\* A body that skips the abstract evaluation and builds the artifact at once.
_filter_pmap_cache_noeval(key) ==
    [t |-> "art", R |-> 1, out_axes |-> OutAxisSlots(1),
     static |-> Unflatten(key.treedef, key.leaves).ch[1], in_axes |-> key.in_axes,
     axis_size |-> key.axis_size, pmapkwargs |-> key.pmapkwargs]

\* The body of _filter_pmap_cache: the abstract evaluation that finds the
\* maximum output rank, then the artifact (or the exception raised).
_filter_pmap_cache(key) ==
    LET both == Unflatten(key.treedef, key.leaves)
        static == both.ch[1]
        struct == both.ch[2]
        per == BackendIn(struct, key.in_axes, key.axis_size)
        full == Combine2(per, static)
        out == FunOut(full.ch[1].x.s, full.ch[2])
        struct_out == StackTree(FilterKinds(out, {"arr", "sds", "int"}, FALSE), 0,
                                BackendSize(struct, key.in_axes, key.axis_size))
        max_out_size == MaxRank(struct_out)
    IN  IF IsRaise(per) THEN per
        ELSE IF HasRaise(out) THEN FirstRaise(out)
        ELSE [t |-> "art", R |-> max_out_size, out_axes |-> OutAxisSlots(max_out_size),
              static |-> static, in_axes |-> key.in_axes, axis_size |-> key.axis_size,
              pmapkwargs |-> key.pmapkwargs]

\* A validation that lets the axis max_out_size itself through.
_check_map_out_axis_inclusive(x, max_out_size) ==
    IF x.kind = "int"
    THEN IF x.n < -max_out_size \/ x.n > max_out_size
         THEN "ValueError:out_axis_bounds" ELSE "ok"
    ELSE IF x.kind # "nil" THEN "ValueError:out_axis_type" ELSE "ok"

_check_map_out_axis(x, max_out_size) ==
    IF x.kind = "int"
    THEN IF x.n < -max_out_size \/ x.n >= max_out_size
         THEN "ValueError:out_axis_bounds" ELSE "ok"
    ELSE IF x.kind # "nil" THEN "ValueError:out_axis_type" ELSE "ok"

\* jtu.tree_map(_check_map_out_axis, _out_axes): the first leaf that fails.
CheckOutAxes(out_axes, max_out_size) ==
    LET leaves == Flatten(out_axes)
        bad == {i \in 1..Len(leaves) : _check_map_out_axis(leaves[i], max_out_size) # "ok"}
    IN  IF bad = {} THEN "ok"
        ELSE _check_map_out_axis(leaves[CHOOSE i \in bad : \A j \in bad : i <= j],
                                 max_out_size)

\* fun_wrapped on the per-instance dynamic arguments: the buckets, the live
\* broadcast outputs and the static broadcast outputs.
fun_wrapped(art, per) ==
    LET full == Combine2(per, art.static)
        _out == FunOut(full.ch[1].x.s, full.ch[2])
        _out_axes == _resolve_axes(_out, full.ch[4])
        checked == CheckOutAxes(_out_axes, art.R)
        _pmapd == [j \in 1..(2 * art.R) |->
                      FilterMask(_out, EqMask(_out_axes, j - 1 - art.R), FALSE)]
        _nonpmapd == FilterMask(_out, NoneMask(_out_axes), FALSE)
    IN  IF HasRaise(_out) THEN FirstRaise(_out)
        ELSE IF IsRaise(_out_axes) THEN _out_axes
        ELSE IF checked # "ok" THEN RaiseT(checked)
        ELSE Tup(<<Tup(_pmapd),
                   FilterKinds(_nonpmapd, {"arr", "sds"}, FALSE),
                   FilterKinds(_nonpmapd, {"arr", "sds"}, TRUE)>>)

\* The backend running the artifact on the dynamic arguments: bucket j is
\* stacked along the axis of slot j, the broadcast outputs come back as is.
PmapRun(art, dynamic) ==
    LET per == BackendIn(dynamic, art.in_axes, art.axis_size)
        n == BackendSize(dynamic, art.in_axes, art.axis_size)
        r == fun_wrapped(art, per)
        stacked == Tup([j \in 1..Len(art.out_axes) |->
                           StackTree(r.ch[1].ch[j], art.out_axes[j], n)])
    IN  IF IsRaise(per) THEN per
        ELSE IF IsRaise(r) THEN r
        ELSE IF HasRaise(stacked) THEN FirstRaise(stacked)
        ELSE Tup(<<stacked, r.ch[2], r.ch[3]>>)

-----------------------------------------------------------------------------
(* Lifting: filter_vmap and filter_pmap.  in_axes may be a dict from        *)
(* parameter name to axis spec: a node "dict" whose children are the pairs  *)
(* (name, spec).                                                            *)

DictT(entries) == [t |-> "dict", x |-> NoV, ch |-> entries]

Entry(name, spec) == Tup(<<Leaf(StrV(name)), spec>>)

DictKeys(d) == {d.ch[i].ch[1].x.s : i \in 1..Len(d.ch)}

\* in_axes.pop(param_name, default)
DictPop(d, name, default) ==
    IF name \in DictKeys(d)
    THEN (d.ch[CHOOSE i \in 1..Len(d.ch) : d.ch[i].ch[1].x.s = name]).ch[2]
    ELSE default

SeqToSet(seq) == {seq[i] : i \in 1..Len(seq)}

\* A positional form that drops the names that are no parameter of fun.
NamedInAxes_unchecked(fun, in_axes) ==
    Tup([i \in 1..Len(FunParams(fun)) |->
            DictPop(in_axes, FunParams(fun)[i], Leaf(if_array(0)))])

\* The dict in_axes in positional form, or the exception for the names that
\* are no parameter of fun.
NamedInAxes(fun, in_axes) ==
    LET params == FunParams(fun)
        new_in_axes == [i \in 1..Len(params) |->
                           DictPop(in_axes, params[i], Leaf(if_array(0)))]
    IN  IF DictKeys(in_axes) \ SeqToSet(params) # {}
        THEN RaiseT("ValueError:in_axes_names")
        ELSE Tup(new_in_axes)

NoWrapper ==
    [kind |-> "none", fun |-> "", in_axes |-> NoneT, out_axes |-> NoneT,
     axis_name |-> "", axis_size |-> 0, filter_warning |-> FALSE, kwargs |-> {}]

Lifted(status, err, w) == [status |-> status, err |-> err, w |-> w]

\* filter_vmap(fun, in_axes=..., out_axes=..., axis_name=..., axis_size=...,
\* **vmapkwargs), with l the arguments given.
filter_vmap(l) ==
    IF l.fun = "sentinel" THEN Lifted("partial", "", NoWrapper)
    ELSE LET in_axes == IF l.in_axes.t = "dict" THEN NamedInAxes(l.fun, l.in_axes)
                        ELSE l.in_axes
         IN  IF IsRaise(in_axes) THEN Lifted("raise", in_axes.x.s, NoWrapper)
             ELSE Lifted("wrapper", "",
                         [kind |-> "vmap", fun |-> l.fun, in_axes |-> in_axes,
                          out_axes |-> l.out_axes, axis_name |-> l.axis_name,
                          axis_size |-> l.axis_size, filter_warning |-> FALSE,
                          kwargs |-> l.kwargs])

\* The donate values of the docstring.
DonateValues_docstring == {"all", "warn", "none"}

DonateValues == {"arrays", "warn", "none"}

\* filter_pmap(fun, in_axes=..., out_axes=..., axis_name=..., axis_size=...,
\* donate=..., **pmapkwargs), with l the arguments given.
filter_pmap(l) ==
    IF l.fun = "sentinel" THEN Lifted("partial", "", NoWrapper)
    ELSE IF l.kwargs \cap {"static_broadcasted_argnums", "donate_argnums"} # {}
    THEN Lifted("raise", "ValueError:reserved_pmapkwargs", NoWrapper)
    ELSE LET in_axes == IF l.in_axes.t = "dict" THEN NamedInAxes(l.fun, l.in_axes)
                        ELSE l.in_axes
         IN  IF IsRaise(in_axes) THEN Lifted("raise", in_axes.x.s, NoWrapper)
             ELSE IF l.donate \notin DonateValues
             THEN Lifted("raise", "ValueError:donate", NoWrapper)
             ELSE Lifted("wrapper", "",
                         [kind |-> "pmap", fun |-> l.fun, in_axes |-> in_axes,
                          out_axes |-> l.out_axes, axis_name |-> l.axis_name,
                          axis_size |-> l.axis_size,
                          filter_warning |-> (l.donate = "arrays"),
                          kwargs |-> IF l.donate # "none"
                                     THEN l.kwargs \cup {"donate_argnums"}
                                     ELSE l.kwargs])

\* The arguments of a lifting call.
LiftArgs(fun, in_axes, out_axes, donate, kwargs) ==
    [fun |-> fun, in_axes |-> in_axes, out_axes |-> out_axes, axis_name |-> "None",
     axis_size |-> 0, donate |-> donate, kwargs |-> kwargs]

-----------------------------------------------------------------------------
(* compile_cache: the memoisation around _filter_pmap_cache.  An entry is   *)
(* [key, id, art]; id numbers the compilations in order.                    *)

NoArt ==
    [t |-> "art", R |-> 0, out_axes |-> <<>>, static |-> NoneT, in_axes |-> NoneT,
     axis_size |-> 0, pmapkwargs |-> {}]

NoEntry == [key |-> NoKey, id |-> 0, art |-> NoArt]

CacheHit(c, key) == \E e \in c : e.key = key

CacheGet(c, key) == CHOOSE e \in c : e.key = key

\* One lookup: the entry of key if there is one; else the body runs, and its
\* artifact is stored unless it raised.
compile_cache(c, log, key) ==
    IF CacheHit(c, key)
    THEN [err |-> NoneT, entry |-> CacheGet(c, key), cache |-> c, log |-> log]
    ELSE LET art == _filter_pmap_cache(key)
             entry == [key |-> key, id |-> Len(log) + 1, art |-> art]
         IN  IF IsRaise(art)
             THEN [err |-> art, entry |-> NoEntry, cache |-> c, log |-> log]
             ELSE [err |-> NoneT, entry |-> entry, cache |-> c \cup {entry},
                   log |-> Append(log, key)]

\* What one invocation did: the value returned or the exception raised
\* (out), the steps it went through (trace), the cache key it used, the
\* entry it was served, and the cache and compile log it left.
Outcome(out, trace, key, entry, c, log) ==
    [out |-> out, trace |-> trace, key |-> key, id |-> entry.id, R |-> entry.art.R,
     static |-> entry.art.static, cache |-> c, log |-> log]

\* _PmapWrapper._call from the resolution of the input axes on.
CallBody(w, is_lower, args, c, log) ==
    Bind(_resolve_axes(args, w.in_axes), LAMBDA in_axes :
      IF IsRaise(in_axes)
      THEN Outcome(in_axes, <<"resolve_in_axes">>, NoKey, NoEntry, c, log)
      ELSE
      Bind(CacheKey(w, args, in_axes), LAMBDA key :
      Bind(compile_cache(c, log, key), LAMBDA got :
        LET looked == <<"resolve_in_axes", "cache_lookup">>
                          \o (IF got.log # log THEN <<"compile">> ELSE <<>>)
        IN  IF IsRaise(got.err)
            THEN Outcome(got.err, looked \o <<"abstract_eval">>, key, NoEntry,
                         got.cache, got.log)
            ELSE
            Bind(PmapRun(got.entry.art, DynamicOf(w, args)), LAMBDA r :
              IF IsRaise(r)
              THEN Outcome(r, looked \o <<"backend">>, key, got.entry, got.cache, got.log)
              ELSE IF is_lower
              THEN Outcome(Leaf(StrV("Lowered")), looked \o <<"backend">>, key,
                           got.entry, got.cache, got.log)
              ELSE Outcome(combine(r.ch[1].ch \o <<Combine2(r.ch[2], r.ch[3])>>),
                           looked \o <<"backend">>, key, got.entry, got.cache,
                           got.log)))))

\* A _call that looks at kwargs only after the work is done.
_call_late(w, is_lower, args, nkw, c, log) ==
    Bind(CallBody(w, is_lower, args, c, log), LAMBDA o :
      IF nkw # 0 THEN [o EXCEPT !.out = RaiseT("RuntimeError:kwargs")] ELSE o)

\* _PmapWrapper._call(is_lower, args, kwargs), nkw the number of keyword
\* arguments, c and log the cache and compile log before the call.
_call(w, is_lower, args, nkw, c, log) ==
    IF nkw # 0
    THEN Outcome(RaiseT("RuntimeError:kwargs"), <<>>, NoKey, NoEntry, c, log)
    ELSE CallBody(w, is_lower, args, c, log)

-----------------------------------------------------------------------------
(* The batch-map wrapper.                                                    *)

\* jtu.tree_map(_swapaxes, vmapd, out_axes)
RECURSIVE SwapTree(_, _)
SwapTree(vmapd, out_axes) ==
    CASE vmapd.t = "leaf" ->
           IF out_axes.x.kind = "int" /\ AxisInRange(out_axes.x.n, Len(vmapd.x.shape))
           THEN Leaf(_swapaxes(vmapd.x, out_axes.x.n))
           ELSE RaiseT("BackendError:swapaxes")
      [] vmapd.t = "none" -> NoneT
      [] OTHER -> Tup([i \in 1..Len(vmapd.ch) |-> SwapTree(vmapd.ch[i], out_axes.ch[i])])

\* _VmapWrapper.__call__(*args, **kwargs), nkw the number of keyword
\* arguments.
VmapCall(w, args, nkw) ==
    IF nkw # 0
    THEN Outcome(RaiseT("RuntimeError:kwargs"), <<>>, NoKey, NoEntry, {}, <<>>)
    ELSE
    LET unmapped_axis == NoneMask(w.in_axes)
        static_args == FilterMask(args, unmapped_axis, FALSE)
        dynamic_args == FilterMask(args, unmapped_axis, TRUE)
        in_axes == _resolve_axes(args, w.in_axes)
        per == BackendIn(dynamic_args, in_axes, w.axis_size)
        n == BackendSize(dynamic_args, in_axes, w.axis_size)
        _args == Combine2(per, static_args)
        _out == FunOut(w.fun, _args)
        _out_axes == _resolve_axes(_out, w.out_axes)
        _none_axes == NoneMask(_out_axes)
        _nonvmapd == FilterMask(_out, _none_axes, FALSE)
        _vmapd == FilterMask(_out, _none_axes, TRUE)
        vmapd == StackTree(_vmapd, 0, n)
        moved == SwapTree(vmapd, _out_axes)
        Done(e, tr) == Outcome(e, tr, NoKey, NoEntry, {}, <<>>)
    IN  IF ~PrefixOk(w.in_axes, args)
        THEN Done(RaiseT("ValueError:tree_structure"), <<"partition">>)
        ELSE IF IsRaise(in_axes) THEN Done(in_axes, <<"partition", "resolve_in_axes">>)
        ELSE IF IsRaise(per) THEN Done(per, <<"partition", "resolve_in_axes", "backend">>)
        ELSE IF HasRaise(_out)
        THEN Done(FirstRaise(_out), <<"partition", "resolve_in_axes", "backend">>)
        ELSE IF IsRaise(_out_axes)
        THEN Done(_out_axes, <<"partition", "resolve_in_axes", "backend">>)
        ELSE IF HasRaise(vmapd)
        THEN Done(FirstRaise(vmapd), <<"partition", "resolve_in_axes", "backend">>)
        ELSE IF HasRaise(moved)
        THEN Done(FirstRaise(moved), <<"partition", "resolve_in_axes", "backend">>)
        ELSE Done(Combine2(moved, _nonvmapd), <<"partition", "resolve_in_axes", "backend">>)

-----------------------------------------------------------------------------
(* Bounds and the inputs the specifications draw from.                      *)

MaxCalls == 3

MaxAxis == 3

MaxDepth == 2

NThreads == 2

DefaultAxes == Leaf(if_array(0))

A0 == Arr(<<2>>, "f32", 0)

A1 == Arr(<<2>>, "f32", 1)

B0 == Arr(<<2, 3>>, "f32", 0)

C0 == Arr(<<2>>, "i32", 0)

D0 == Arr(<<2, 3, 4>>, "f32", 0)

E0 == Arr(<<2, 2, 2>>, "f32", 0)

Args(x, y) == Tup(<<Leaf(x), Leaf(y)>>)

PW(fun, in_axes, out_axes, donate) ==
    filter_pmap(LiftArgs(fun, in_axes, out_axes, donate, {})).w

VW(fun, in_axes, out_axes) ==
    filter_vmap(LiftArgs(fun, in_axes, out_axes, "none", {})).w

Input(op, w, args, nkw) == [op |-> op, w |-> w, args |-> args, nkw |-> nkw]

PlainW == PW("first", DefaultAxes, DefaultAxes, "none")

BadInW == PW("first", Leaf(StrV("bad")), DefaultAxes, "none")

\* The invocations of the sequential specification.
SeqInputs ==
    {Input("call", PlainW, Args(x, IntV(y)), 0) : x \in {A0, A1, B0, C0}, y \in {1, 2}}
    \cup {Input("lower", PlainW, Args(x, IntV(1)), 0) : x \in {A0, A1}}
    \cup {Input(op, w, Args(A0, IntV(1)), 1) : op \in {"call", "lower"}, w \in {PlainW, BadInW}}
    \cup {Input("call", PW("first", DefaultAxes, Leaf(IntV(1)), "none"), Args(x, IntV(1)), 0)
             : x \in {A0, B0}}
    \cup {Input("call", w, Args(A0, IntV(1)), 0)
             : w \in {PW("boom", DefaultAxes, DefaultAxes, "none"),
                      BadInW,
                      PW("first", DefaultAxes, Leaf(StrV("bad")), "none"),
                      PW("first", DefaultAxes, Leaf(FnV("returns_str", 0)), "none"),
                      PW("first", DefaultAxes, DefaultAxes, "arrays")}}
    \cup {Input("vmap", VW("first", DefaultAxes, DefaultAxes), Args(A0, IntV(1)), k)
             : k \in {0, 1}}
    \cup {Input("vmap", VW("first", Leaf(StrV("bad")), DefaultAxes), Args(A0, IntV(1)), 1)}

-----------------------------------------------------------------------------
(* The sequential specification: wrappers invoked one after the other.      *)

\* The record kept of one invocation.
CallRec(i, o, before) ==
    [op |-> i.op, w |-> i.w, args |-> i.args, nkw |-> i.nkw, out |-> o.out,
     trace |-> o.trace, key |-> o.key, id |-> o.id, R |-> o.R, static |-> o.static,
     added |-> o.cache \ before,
     suppressed |-> (i.op = "call" /\ i.w.filter_warning)]

\* _PmapWrapper.__call__(*args, **kwargs)
PmapCall(i) ==
    /\ i.op = "call"
    /\ ncalls < MaxCalls
    /\ \E o \in {_call(i.w, FALSE, i.args, i.nkw, cache, compileLog)} :
           /\ cache' = o.cache
           /\ compileLog' = o.log
           /\ calls' = calls \cup {CallRec(i, o, cache)}
           /\ ncalls' = ncalls + 1
           /\ UNCHANGED <<rs, lifted, th>>

\* _PmapWrapper.lower(*args, **kwargs)
PmapLower(i) ==
    /\ i.op = "lower"
    /\ ncalls < MaxCalls
    /\ \E o \in {_call(i.w, TRUE, i.args, i.nkw, cache, compileLog)} :
           /\ cache' = o.cache
           /\ compileLog' = o.log
           /\ calls' = calls \cup {CallRec(i, o, cache)}
           /\ ncalls' = ncalls + 1
           /\ UNCHANGED <<rs, lifted, th>>

\* _VmapWrapper.__call__(*args, **kwargs)
VmapInvoke(i) ==
    /\ i.op = "vmap"
    /\ ncalls < MaxCalls
    /\ \E o \in {VmapCall(i.w, i.args, i.nkw)} :
           /\ calls' = calls \cup {CallRec(i, [o EXCEPT !.cache = cache], cache)}
           /\ ncalls' = ncalls + 1
           /\ UNCHANGED <<rs, lifted, cache, compileLog, th>>

IdleRs == [pc |-> "idle", spec |-> NoneT, val |-> NoneT, out |-> NoneT]

IdleLifted ==
    [which |-> "none", args |-> LiftArgs("", NoneT, NoneT, "", {}),
     res |-> Lifted("none", "", NoWrapper)]

\* A thread that has not called yet.
IdleThread ==
    [pc |-> "idle", i |-> Input("", NoWrapper, NoneT, 0), key |-> NoKey, id |-> 0,
     art |-> NoArt, got |-> NoArt, out |-> NoneT]

IdleTh == [t \in 1..NThreads |-> IdleThread]

Init ==
    /\ rs = IdleRs
    /\ lifted = IdleLifted
    /\ cache = {}
    /\ compileLog = <<>>
    /\ calls = {}
    /\ ncalls = 0
    /\ th = IdleTh

Next ==
    \/ \E i \in SeqInputs : PmapCall(i)
    \/ \E i \in SeqInputs : PmapLower(i)
    \/ \E i \in SeqInputs : VmapInvoke(i)

Spec == Init /\ [][Next]_vars

-----------------------------------------------------------------------------
(* Properties of the sequential specification.                              *)

\* The parallel-map invocations (calls and lower requests).
PmapCalls == {c \in calls : c.op \in {"call", "lower"}}

Served == {c \in PmapCalls : ~IsRaise(c.out)}

Compilations(key) == Cardinality({j \in 1..Len(compileLog) : compileLog[j] = key})

\* What the arguments of an invocation look like to the cache: the static
\* values and the structure, and the shape and dtype of every array.
StaticPart(c) == FilterKinds(c.args, {"arr"}, TRUE)

ArrayPart(c) ==
    LET arrays == Flatten(FilterKinds(c.args, {"arr"}, FALSE))
    IN  [j \in 1..Len(arrays) |-> <<arrays[j].shape, arrays[j].s>>]

ArrayValues(c) ==
    LET arrays == Flatten(FilterKinds(c.args, {"arr"}, FALSE))
    IN  [j \in 1..Len(arrays) |-> arrays[j].n]

\* The components of the CacheKey, read off the invocation.
Signature(c) ==
    [fun |-> c.w.fun, static |-> StaticPart(c), arrays |-> ArrayPart(c),
     out_axes |-> c.w.out_axes, in_axes |-> _resolve_axes(c.args, c.w.in_axes),
     axis_name |-> c.w.axis_name, axis_size |-> c.w.axis_size, kwargs |-> c.w.kwargs]

\* C1: an invocation whose cache key components equal those of a successful
\* invocation is served the same artifact, and that key was compiled once,
\* whatever the contents of the arrays and whether it is a call or a lower
\* request.
C1_SameKeyCompiledOnce ==
    \A a \in Served : \A b \in PmapCalls :
        (b.nkw = 0 /\ Signature(a) = Signature(b)) =>
            /\ b.key = a.key
            /\ b.id = a.id
            /\ Compilations(a.key) = 1

\* Two successful invocations with one key and different array contents, one
\* of them a lower request, and a compilation for another key as well.
C1_Witness ==
    \E a \in Served : \E b \in Served :
        /\ Signature(a) = Signature(b)
        /\ ArrayValues(a) # ArrayValues(b)
        /\ a.op = "call" /\ b.op = "lower"
        /\ a.id = b.id
        /\ \E c \in Served : c.key # a.key
        /\ Len(compileLog) = 2

\* C2: two invocations that differ in a static argument value, or in the
\* shape or dtype of an array argument, have different keys, are served
\* different artifacts, each compiled for its own key and closed over its
\* own static values.
C2_ChangedKeyRecompiles ==
    \A a \in PmapCalls : \A b \in PmapCalls :
        (a.id # 0 /\ b.id # 0
         /\ (StaticPart(a) # StaticPart(b) \/ ArrayPart(a) # ArrayPart(b))) =>
            /\ a.key # b.key
            /\ a.id # b.id
            /\ compileLog[a.id] = a.key
            /\ compileLog[b.id] = b.key
            /\ b.static = StaticOf(b.w, b.args)

\* Invocations of one wrapper that differ in a static value, in a shape and
\* in a dtype, all three served.
C2_Witness ==
    \E a \in Served : \E b \in Served : \E c \in Served :
        /\ a.w = b.w /\ b.w = c.w
        /\ StaticPart(a) # StaticPart(b) /\ ArrayPart(a) = ArrayPart(b)
        /\ StaticPart(a) = StaticPart(c) /\ ArrayPart(a) # ArrayPart(c)
        /\ a.id # b.id /\ a.id # c.id /\ b.id # c.id

\* C3 as stated: an invocation that raises leaves the cache as it was.
C3_ErrorLeavesCache ==
    \A c \in PmapCalls : IsRaise(c.out) => c.added = {}

\* C3 amended: an invocation that raises for its keyword arguments, for its
\* input axis spec, or in the abstract evaluation leaves the cache as it
\* was; one that raises when the compiled function is traced (output axis
\* spec, output axis validation) adds at most the entry of its own key; an
\* invocation that raises returns no value.
C3_ErrorCacheEffect ==
    \A c \in PmapCalls :
        IsRaise(c.out) =>
            /\ (\/ c.nkw # 0
                \/ IsRaise(_resolve_axes(c.args, c.w.in_axes))
                \/ c.w.fun = "boom") => c.added = {}
            /\ \A e \in c.added : e.key = c.key /\ e.id = c.id
            /\ Cardinality(c.added) <= 1
            /\ c.out.ch = <<>>

\* Each kind of failure happened, and an output axis out of bounds left its
\* entry behind.
C3_Witness ==
    /\ \E c \in PmapCalls : c.out = RaiseT("RuntimeError:kwargs")
    /\ \E c \in PmapCalls : c.out = RaiseT("UserError")
    /\ \E c \in PmapCalls : c.out = RaiseT("ValueError:out_axis_bounds") /\ c.added # {}

\* C7: an invocation with a keyword argument raises the usage error before
\* any axis resolution, cache lookup, compilation or backend run, and the
\* cache is unchanged.
C7_KwargsRejectedFirst ==
    \A c \in calls :
        c.nkw # 0 =>
            /\ c.out = RaiseT("RuntimeError:kwargs")
            /\ c.trace = <<>>
            /\ c.id = 0
            /\ c.added = {}

\* A batch-map call, a parallel-map call and a lower request, each with a
\* keyword argument, one of them on a wrapper whose in_axes are invalid.
C7_Witness ==
    /\ \E c \in calls : c.op = "vmap" /\ c.nkw # 0
    /\ \E c \in calls : c.op = "call" /\ c.nkw # 0 /\ c.w = BadInW
    /\ \E c \in calls : c.op = "lower" /\ c.nkw # 0

-----------------------------------------------------------------------------
(* Axis resolution on its own: one _resolve_axes call on a spec tree and a  *)
(* value tree.                                                              *)

\* The trees of depth at most d over the given leaves.
RECURSIVE Trees(_, _)
Trees(leaves, d) ==
    IF d = 0 THEN leaves
    ELSE Bind(Trees(leaves, d - 1), LAMBDA sub :
           leaves \cup {Tup(<<t>>) : t \in sub}
                  \cup {Tup(<<t, l>>) : t \in sub, l \in leaves})

SpecLeaves ==
    {NoneT, Leaf(IntV(1)), Leaf(if_array(0)), Leaf(FnV("returns_str", 0)),
     Leaf(StrV("bad"))}

ValueLeaves == {NoneT, Leaf(A0), Leaf(IntV(1))}

\* The calls of _resolve_axes on trees of depth at most d.
ResolveInputs(d) ==
    {[pc |-> "ready", spec |-> s, val |-> v, out |-> NoneT]
        : s \in Trees(SpecLeaves, d), v \in Trees(ValueLeaves, d)}

\* out = _resolve_axes(val, spec)
Resolve ==
    /\ rs.pc = "ready"
    /\ rs' = [rs EXCEPT !.pc = "done", !.out = _resolve_axes(rs.val, rs.spec)]
    /\ UNCHANGED <<lifted, cache, compileLog, calls, ncalls, th>>

InitResolve ==
    /\ rs \in ResolveInputs(MaxDepth)
    /\ lifted = IdleLifted
    /\ cache = {}
    /\ compileLog = <<>>
    /\ calls = {}
    /\ ncalls = 0
    /\ th = IdleTh

NextResolve == Resolve

SpecResolve == InitResolve /\ [][NextResolve]_vars

\* The positions of a tree: the sequences of child indices.
Positions == UNION {[1..n -> 1..2] : n \in 0..(MaxDepth + 1)}

Missing == [t |-> "missing", x |-> NoV, ch |-> <<>>]

RECURSIVE At(_, _)
At(tree, p) ==
    IF p = <<>> THEN tree
    ELSE IF tree.t = "tuple" /\ Head(p) <= Len(tree.ch)
         THEN At(tree.ch[Head(p)], Tail(p))
         ELSE Missing

IsSpecLeaf(node) == node.t \in {"leaf", "none"}

\* The spec tree is a prefix of the value tree.
IsPrefix(spec, val) ==
    \A p \in Positions :
        At(spec, p).t = "tuple" =>
            At(val, p).t = "tuple" /\ Len(At(val, p).ch) = Len(At(spec, p).ch)

\* The spec leaf that governs position q of the value tree.
Governing(spec, q) ==
    At(spec, SubSeq(q, 1, CHOOSE n \in 0..Len(q) : IsSpecLeaf(At(spec, SubSeq(q, 1, n)))))

BadSpecLeaf(spec) ==
    \E p \in Positions :
        At(spec, p).t = "leaf" /\ At(spec, p).x.kind \notin {"int", "fn"}

\* C8: resolving a spec tree that is a prefix of the value tree raises the
\* axis-spec error when a spec leaf is neither None, an integer nor a
\* function; otherwise the result has the value tree's structure, and each
\* value leaf is assigned the governing spec leaf when that is None or an
\* integer, and f(leaf) when it is a function f.
C8_ResolveAxes ==
    (rs.pc = "done" /\ IsPrefix(rs.spec, rs.val)) =>
        IF BadSpecLeaf(rs.spec)
        THEN rs.out = RaiseT("ValueError:axis_spec")
        ELSE \A q \in Positions :
               LET v == At(rs.val, q)
                   o == At(rs.out, q)
                   g == Governing(rs.spec, q)
               IN  /\ v.t = "missing" <=> o.t = "missing"
                   /\ v.t = "tuple" => (o.t = "tuple" /\ Len(o.ch) = Len(v.ch))
                   /\ v.t = "none" => o.t = "none"
                   /\ v.t = "leaf" =>
                        /\ (g.t = "none" \/ g.x.kind = "int") => o = g
                        /\ (g.t = "leaf" /\ g.x.kind = "fn") => o = AsTree(ApplyFn(g.x, v.x))

\* A nested value tree resolved against a spec with an integer and a
\* function leaf, the function giving an integer for one leaf and None for
\* another.
C8_Witness ==
    /\ rs.pc = "done"
    /\ rs.spec = Tup(<<Leaf(if_array(0)), Leaf(IntV(1))>>)
    /\ rs.val = Tup(<<Tup(<<Leaf(A0), Leaf(IntV(1))>>), Leaf(A0)>>)
    /\ rs.out = Tup(<<Tup(<<Leaf(IntV(0)), NoneT>>), Leaf(IntV(1))>>)

-----------------------------------------------------------------------------
(* Output axes of the parallel map: one call, from an empty cache, for      *)
(* every function, output axis spec and argument shape.                     *)

OutSpecs ==
    {DefaultAxes, NoneT, Leaf(FnV("returns_str", 0)), Leaf(StrV("bad"))}
    \cup {Leaf(IntV(k)) : k \in (-MaxAxis)..MaxAxis}

OutInputs ==
    {Input("call", PW(f, DefaultAxes, oa, "none"), Args(x, IntV(1)), 0)
        : f \in {"first", "total", "both", "tagged"}, oa \in OutSpecs, x \in {A0, B0, D0}}

\* _PmapWrapper.__call__(*args), the first call of the process.
OutCall(i) ==
    /\ ncalls = 0
    /\ \E o \in {_call(i.w, FALSE, i.args, i.nkw, cache, compileLog)} :
           /\ cache' = o.cache
           /\ compileLog' = o.log
           /\ calls' = calls \cup {CallRec(i, o, cache)}
           /\ ncalls' = ncalls + 1
           /\ UNCHANGED <<rs, lifted, th>>

NextOut == \E i \in OutInputs : OutCall(i)

SpecOut == Init /\ [][NextOut]_vars

\* What the function returns for one instance of the call's arguments (the
\* first argument mapped over its axis 0, the second broadcast).
InstanceOut(c) ==
    FunOut(c.w.fun, Tup(<<Leaf(Unstack(c.args.ch[1].x, 0)), c.args.ch[2]>>))

\* The maximum rank of the array-like output leaves, each with the mapped
\* dimension added.
StackedRank(out) ==
    LET leaves == Flatten(out)
        ranks == {Len(leaves[j].shape) + 1 :
                     j \in {k \in 1..Len(leaves) : leaves[k].kind \in {"arr", "int"}}}
    IN  IF ranks = {} THEN 0 ELSE CHOOSE r \in ranks : \A q \in ranks : q <= r

\* The resolved output axes of a call, as a set of values.
ResolvedOutAxes(c) ==
    LET leaves == Flatten(_resolve_axes(InstanceOut(c), c.w.out_axes))
    IN  {leaves[j] : j \in 1..Len(leaves)}

OutOfBounds(a, R) == a.kind = "int" /\ (a.n < -R \/ a.n >= R)

NotAnAxis(a) == a.kind \notin {"int", "nil"}

\* C5: with R the maximum rank of the output leaves found for the key, a
\* parallel-map call whose resolved output axes hold an integer outside
\* [-R, R) raises the axis-bounds error, one that holds a value that is no
\* integer and not None raises a value error, and integers in [-R, R) and
\* None pass the validation; a scalar output with out_axes=1 raises the
\* axis-bounds error.
C5_OutAxisValidated ==
    \A c \in calls :
        ~IsRaise(_resolve_axes(InstanceOut(c), c.w.out_axes)) =>
            LET R == StackedRank(InstanceOut(c))
                axes == ResolvedOutAxes(c)
                bounds == \E a \in axes : OutOfBounds(a, R)
                type == \E a \in axes : NotAnAxis(a)
            IN  /\ c.R = R
                /\ (bounds /\ ~type) => c.out = RaiseT("ValueError:out_axis_bounds")
                /\ (type /\ ~bounds) => c.out = RaiseT("ValueError:out_axis_type")
                /\ (type \/ bounds) =>
                       c.out \in {RaiseT("ValueError:out_axis_bounds"),
                                  RaiseT("ValueError:out_axis_type")}
                /\ (~type /\ ~bounds) =>
                       c.out \notin {RaiseT("ValueError:out_axis_bounds"),
                                     RaiseT("ValueError:out_axis_type")}
                /\ (c.w.fun = "total" /\ c.w.out_axes = Leaf(IntV(1))) =>
                       c.out = RaiseT("ValueError:out_axis_bounds")

\* The scalar output with out_axes=1 was rejected for its bounds.
C5_Witness ==
    \E c \in calls :
        /\ c.w.fun = "total" /\ c.w.out_axes = Leaf(IntV(1))
        /\ InstanceOut(c).x.shape = <<>>
        /\ c.R = 1
        /\ c.out = RaiseT("ValueError:out_axis_bounds")

-----------------------------------------------------------------------------
(* Output axes of the batch map: one call for every function, output axis   *)
(* and argument shape.                                                      *)

VmapInputs ==
    {Input("vmap", VW(f, DefaultAxes, oa), Args(x, IntV(1)), 0)
        : f \in {"first", "both", "tagged"},
          oa \in {DefaultAxes, NoneT} \cup {Leaf(IntV(k)) : k \in (-MaxAxis)..MaxAxis},
          x \in {A0, B0, D0, E0}}

\* _VmapWrapper.__call__(*args), one call.
VmapOnce(i) ==
    /\ ncalls = 0
    /\ \E o \in {VmapCall(i.w, i.args, i.nkw)} :
           /\ calls' = calls \cup {CallRec(i, [o EXCEPT !.cache = cache], cache)}
           /\ ncalls' = ncalls + 1
           /\ UNCHANGED <<rs, lifted, cache, compileLog, th>>

NextVmap == \E i \in VmapInputs : VmapOnce(i)

SpecVmap == Init /\ [][NextVmap]_vars

\* The batch-map calls of the identity on the first argument that returned,
\* with an integer output axis.
MovedCalls ==
    {c \in calls : /\ c.op = "vmap" /\ c.w.fun = "first"
                   /\ c.w.out_axes.t = "leaf" /\ c.w.out_axes.x.kind = "int"
                   /\ ~IsRaise(c.out)}

\* Where the dimensions of the result come from when the batch dimension
\* (0) is put at axis a and the dimensions of one instance keep their order.
BatchAt(c) ==
    LET inst == Unstack(c.args.ch[1].x, 0)
        a == c.w.out_axes.x.n
    IN  InsertAt(inst.axes, NormAxis(a, Len(inst.shape) + 1) + 1, 0)

\* C6: a batch-map call with output axis a returns each mapped output leaf
\* with the batch dimension at position a and the other dimensions in their
\* original relative order.
C6_BatchAxisMoved ==
    \A c \in MovedCalls : c.out.x.axes = BatchAt(c)

\* C6, what the code does: the batch dimension is at position a, and the
\* dimension that was at position a is at position 0.
C6_BatchAxisSwapped ==
    \A c \in MovedCalls :
        LET a == NormAxis(c.w.out_axes.x.n, Len(c.out.x.axes)) + 1
            stacked == <<0>> \o Unstack(c.args.ch[1].x, 0).axes
        IN  /\ c.out.x.axes[a] = 0
            /\ c.out.x.axes[1] = stacked[a]
            /\ \A j \in 1..Len(stacked) : j \notin {1, a} => c.out.x.axes[j] = stacked[j]

\* x of shape (2, 3, 4) with out_axes=2 came back with shape (4, 3, 2).
C6_Witness ==
    \E c \in MovedCalls :
        /\ c.args.ch[1].x = D0
        /\ c.w.out_axes.x.n = 2
        /\ c.out.x.shape = <<4, 3, 2>>

-----------------------------------------------------------------------------
(* Lifting on its own: one filter_vmap or filter_pmap call, with or without *)
(* the function; without it the call returns a partial application that is  *)
(* given the function afterwards.                                           *)

AxesDicts ==
    {DictT(<<>>),
     DictT(<<Entry("x", Leaf(IntV(1)))>>),
     DictT(<<Entry("y", NoneT)>>),
     DictT(<<Entry("y", NoneT), Entry("x", Leaf(IntV(1)))>>),
     DictT(<<Entry("z", Leaf(IntV(0)))>>),
     DictT(<<Entry("x", Leaf(IntV(1))), Entry("z", Leaf(IntV(0)))>>)}

LiftInAxes == {DefaultAxes, NoneT} \cup AxesDicts

LiftOutAxes ==
    {DefaultAxes, DictT(<<Entry("x", Leaf(IntV(1)))>>), DictT(<<Entry("z", Leaf(IntV(0)))>>)}

PmapLifts ==
    {LiftArgs(f, ia, oa, d, kw)
        : f \in {"first", "sentinel"}, ia \in LiftInAxes, oa \in LiftOutAxes,
          d \in {"arrays", "warn", "none", "all", "bogus"},
          kw \in {{}, {"donate_argnums"}, {"static_broadcasted_argnums"}, {"backend"}}}

VmapLifts ==
    {LiftArgs(f, ia, oa, "", kw)
        : f \in {"first", "sentinel"}, ia \in LiftInAxes, oa \in LiftOutAxes,
          kw \in {{}, {"spmd_axis_name"}}}

\* filter_vmap(...)
LiftVmap(l) ==
    /\ lifted.which = "none"
    /\ lifted' = [which |-> "vmap", args |-> l, res |-> filter_vmap(l)]
    /\ UNCHANGED <<rs, cache, compileLog, calls, ncalls, th>>

\* filter_pmap(...)
LiftPmap(l) ==
    /\ lifted.which = "none"
    /\ lifted' = [which |-> "pmap", args |-> l, res |-> filter_pmap(l)]
    /\ UNCHANGED <<rs, cache, compileLog, calls, ncalls, th>>

\* The ft.partial returned for a missing fun, applied to the function.
ApplyPartial(f) ==
    /\ lifted.res.status = "partial"
    /\ \E l \in {[lifted.args EXCEPT !.fun = f]} :
           lifted' = [lifted EXCEPT !.args = l,
                                    !.res = IF lifted.which = "pmap" THEN filter_pmap(l)
                                            ELSE filter_vmap(l)]
    /\ UNCHANGED <<rs, cache, compileLog, calls, ncalls, th>>

NextLift ==
    \/ \E l \in VmapLifts : LiftVmap(l)
    \/ \E l \in PmapLifts : LiftPmap(l)
    \/ \E f \in {"first", "both"} : ApplyPartial(f)

SpecLift == Init /\ [][NextLift]_vars

Reserved == {"static_broadcasted_argnums", "donate_argnums"}

\* The names of a mapping that are no parameter of the function.
UnknownNames(axes) ==
    IF axes.t = "dict" THEN DictKeys(axes) \ {"x", "y"} ELSE {}

\* A parallel-map lift that has been given its function.
PmapLifted == lifted.which = "pmap" /\ lifted.args.fun # "sentinel"

CleanLift ==
    /\ lifted.which \in {"vmap", "pmap"}
    /\ lifted.args.fun # "sentinel"
    /\ lifted.which = "pmap" =>
           /\ lifted.args.donate \in {"arrays", "warn", "none"}
           /\ lifted.args.kwargs \cap Reserved = {}

\* The mapping in positional form: the spec of each declared parameter in
\* order, the default for the parameters the mapping does not name.
IsPositional(pos, mapping) ==
    /\ pos.t = "tuple"
    /\ Len(pos.ch) = 2
    /\ \A i \in 1..2 :
          LET name == <<"x", "y">>[i]
              named == {j \in 1..Len(mapping.ch) : mapping.ch[j].ch[1].x.s = name}
          IN  IF named = {} THEN pos.ch[i] = Leaf(if_array(0))
              ELSE \E j \in named : pos.ch[i] = mapping.ch[j].ch[2]

\* C10 as stated: a mapping given as in_axes or out_axes is put in
\* positional form, and a mapping that names no parameter of the function
\* makes the lift raise.
C10_NamedAxesResolved ==
    CleanLift =>
        /\ (UnknownNames(lifted.args.in_axes) \cup UnknownNames(lifted.args.out_axes)) # {} =>
               lifted.res.status = "raise"
        /\ (UnknownNames(lifted.args.in_axes) \cup UnknownNames(lifted.args.out_axes)) = {} =>
               /\ lifted.res.status = "wrapper"
               /\ lifted.args.in_axes.t = "dict" =>
                      IsPositional(lifted.res.w.in_axes, lifted.args.in_axes)
               /\ lifted.args.out_axes.t = "dict" =>
                      IsPositional(lifted.res.w.out_axes, lifted.args.out_axes)

\* C10 amended: a mapping given as in_axes is put in positional form, with
\* if_array(0) for the parameters it does not name, and the lift raises when
\* it names no parameter of the function; out_axes is handed to the wrapper
\* as given, mapping or not, and its names are not looked at.
C10_NamedInAxesResolved ==
    CleanLift =>
        /\ UnknownNames(lifted.args.in_axes) # {} =>
               lifted.res = Lifted("raise", "ValueError:in_axes_names", NoWrapper)
        /\ UnknownNames(lifted.args.in_axes) = {} =>
               /\ lifted.res.status = "wrapper"
               /\ lifted.args.in_axes.t = "dict" =>
                      IsPositional(lifted.res.w.in_axes, lifted.args.in_axes)
               /\ lifted.args.in_axes.t # "dict" =>
                      lifted.res.w.in_axes = lifted.args.in_axes
               /\ lifted.res.w.out_axes = lifted.args.out_axes

\* A batch-map lift whose in_axes mapping names y before x and whose
\* out_axes mapping names an unknown parameter built a wrapper.
C10_Witness ==
    /\ CleanLift
    /\ lifted.which = "vmap"
    /\ lifted.args.in_axes = DictT(<<Entry("y", NoneT), Entry("x", Leaf(IntV(1)))>>)
    /\ lifted.args.out_axes = DictT(<<Entry("z", Leaf(IntV(0)))>>)
    /\ lifted.res.status = "wrapper"
    /\ lifted.res.w.in_axes = Tup(<<Leaf(IntV(1)), NoneT>>)

-----------------------------------------------------------------------------
(* Threads calling one wrapper at the same time.  A call is the steps of    *)
(* _PmapWrapper._call: the key, the lookup in the cache, on a miss the body *)
(* of _filter_pmap_cache and the store of its artifact, then the run.       *)

ThreadInputs == {Input("call", PlainW, Args(x, IntV(1)), 0) : x \in {A0, A1, B0}}

\* The call starts: keyword check, input axes and key.
TBegin(t, i) ==
    /\ th[t].pc = "idle"
    /\ \E in_axes \in {_resolve_axes(i.args, i.w.in_axes)} :
           th' = [th EXCEPT ![t] = [@ EXCEPT !.pc = "lookup", !.i = i,
                                             !.key = CacheKey(i.w, i.args, in_axes)]]
    /\ UNCHANGED <<rs, lifted, cache, compileLog, calls, ncalls>>

\* The cache is asked for the key.
TLookup(t) ==
    /\ th[t].pc = "lookup"
    /\ IF CacheHit(cache, th[t].key)
       THEN th' = [th EXCEPT ![t] = [@ EXCEPT !.pc = "run",
                                              !.id = CacheGet(cache, th[t].key).id,
                                              !.got = CacheGet(cache, th[t].key).art]]
       ELSE th' = [th EXCEPT ![t] = [@ EXCEPT !.pc = "build"]]
    /\ UNCHANGED <<rs, lifted, cache, compileLog, calls, ncalls>>

\* The miss path runs the body of _filter_pmap_cache.
TBuild(t) ==
    /\ th[t].pc = "build"
    /\ \E art \in {_filter_pmap_cache(th[t].key)} :
           IF IsRaise(art)
           THEN /\ th' = [th EXCEPT ![t] = [@ EXCEPT !.pc = "done", !.out = art]]
                /\ UNCHANGED compileLog
           ELSE /\ th' = [th EXCEPT ![t] = [@ EXCEPT !.pc = "store", !.art = art,
                                                     !.id = Len(compileLog) + 1]]
                /\ compileLog' = Append(compileLog, th[t].key)
    /\ UNCHANGED <<rs, lifted, cache, calls, ncalls>>

\* The artifact is stored, unless the key has got an entry meanwhile; the
\* caller goes on with the artifact it built.
TStore(t) ==
    /\ th[t].pc = "store"
    /\ cache' = IF CacheHit(cache, th[t].key) THEN cache
                ELSE cache \cup {[key |-> th[t].key, id |-> th[t].id, art |-> th[t].art]}
    /\ th' = [th EXCEPT ![t] = [@ EXCEPT !.pc = "run", !.got = th[t].art]]
    /\ UNCHANGED <<rs, lifted, compileLog, calls, ncalls>>

\* cached(dynamic) and the recombination of its outputs.
TRun(t) ==
    /\ th[t].pc = "run"
    /\ \E r \in {PmapRun(th[t].got, DynamicOf(th[t].i.w, th[t].i.args))} :
           th' = [th EXCEPT ![t] = [@ EXCEPT
                     !.pc = "done",
                     !.out = IF IsRaise(r) THEN r
                             ELSE combine(r.ch[1].ch \o <<Combine2(r.ch[2], r.ch[3])>>)]]
    /\ UNCHANGED <<rs, lifted, cache, compileLog, calls, ncalls>>

NextThreads ==
    \/ \E t \in 1..NThreads : \E i \in ThreadInputs : TBegin(t, i)
    \/ \E t \in 1..NThreads : TLookup(t)
    \/ \E t \in 1..NThreads : TBuild(t)
    \/ \E t \in 1..NThreads : TStore(t)
    \/ \E t \in 1..NThreads : TRun(t)

SpecThreads == Init /\ [][NextThreads]_vars

\* An artifact built to the end for the call i: the rank found for its
\* output, one output slot per axis in [-R, R), the static arguments and
\* the input axes of the call.
Complete(art, i) ==
    /\ art.t = "art"
    /\ art.R = StackedRank(InstanceOut(i))
    /\ art.out_axes = [j \in 1..(2 * art.R) |-> j - 1 - art.R]
    /\ art.static = StaticOf(i.w, i.args)
    /\ art.in_axes = Tup(<<NoneT, _resolve_axes(i.args, i.w.in_axes), Leaf(IntV(0)), NoneT>>)

\* C4: in every interleaving of threads calling for the same key, a caller
\* that has its artifact has a complete one and returns what a call on its
\* own returns, the cache holds one entry per key and that entry is
\* complete; the key may have been compiled more than once.
C4_ConcurrentFirstCall ==
    /\ \A e \in cache : \A f \in cache : e.key = f.key => e = f
    /\ \A e \in cache :
          /\ Compilations(e.key) >= 1
          /\ \E t \in 1..NThreads : th[t].key = e.key /\ Complete(e.art, th[t].i)
    /\ \A t \in 1..NThreads :
          /\ th[t].pc \in {"run", "done"} =>
                /\ Complete(th[t].got, th[t].i)
                /\ Cardinality({e \in cache : e.key = th[t].key}) = 1
          /\ th[t].pc = "done" =>
                th[t].out = _call(th[t].i.w, FALSE, th[t].i.args, 0, {}, <<>>).out

\* Two threads called for one key with different arrays, both compiled,
\* both returned, and the cache holds the one entry.
C4_Witness ==
    /\ th[1].pc = "done" /\ th[2].pc = "done"
    /\ th[1].i # th[2].i
    /\ th[1].key = th[2].key
    /\ Compilations(th[1].key) = 2
    /\ Cardinality(cache) = 1
    /\ ~IsRaise(th[1].out) /\ ~IsRaise(th[2].out)

-----------------------------------------------------------------------------
(* The partition of the arguments of a batch-map call: one call for every   *)
(* in_axes spec and pair of arguments.                                      *)

\* _VmapWrapper.__call__ up to the backend: what is captured by closure
\* (static_args), what is handed to the backend (dynamic_args), and the
\* resolved input axes handed with it.
VmapParts(w, args) ==
    [static_args |-> FilterMask(args, NoneMask(w.in_axes), FALSE),
     dynamic_args |-> FilterMask(args, NoneMask(w.in_axes), TRUE),
     in_axes |-> _resolve_axes(args, w.in_axes)]

PartInAxes ==
    {DefaultAxes, NoneT, Leaf(IntV(0)),
     Tup(<<Leaf(IntV(0)), NoneT>>),
     Tup(<<Leaf(if_array(0)), NoneT>>),
     Tup(<<Leaf(IntV(0)), Leaf(if_array(0))>>),
     Tup(<<Leaf(IntV(0)), Leaf(FnV("always_none", 0))>>)}

PartInputs ==
    {Input("vmap", VW(f, ia, DefaultAxes), Args(x, y), 0)
        : f \in {"first", "both"}, ia \in PartInAxes, x \in {A0, B0, C0, D0},
          y \in {IntV(1), StrV("s"), A0, B0}}

\* The record kept of the call: its partition and what it returned.
PartRec(i, p, o) ==
    [op |-> i.op, w |-> i.w, args |-> i.args, nkw |-> i.nkw, out |-> o.out,
     static_args |-> p.static_args, dynamic_args |-> p.dynamic_args,
     in_axes |-> p.in_axes]

\* _VmapWrapper.__call__(*args), one call, its partition kept.
VmapPartition(i) ==
    /\ ncalls = 0
    /\ PrefixOk(i.w.in_axes, i.args)
    /\ \E p \in {VmapParts(i.w, i.args)} : \E o \in {VmapCall(i.w, i.args, i.nkw)} :
           /\ calls' = calls \cup {PartRec(i, p, o)}
           /\ ncalls' = ncalls + 1
           /\ UNCHANGED <<rs, lifted, cache, compileLog, th>>

NextPartition == \E i \in PartInputs : VmapPartition(i)

SpecPartition == Init /\ [][NextPartition]_vars

\* The positions of the argument leaves of a call.
ArgLeaves(c) == {q \in Positions : At(c.args, q).t = "leaf"}

\* C11: the sub-structure handed to the backend holds exactly the argument
\* leaves whose resolved input axis is not None, and the sub-structure
\* captured by closure holds exactly the leaves whose resolved input axis
\* is None, whether the None is a None spec or the result of a callable.
C11_PartitionByResolvedAxis ==
    \A c \in calls :
        ~IsRaise(c.in_axes) =>
            \A q \in ArgLeaves(c) :
                IF At(c.in_axes, q).t = "none"
                THEN /\ At(c.static_args, q) = At(c.args, q)
                     /\ At(c.dynamic_args, q).t = "none"
                ELSE /\ At(c.dynamic_args, q) = At(c.args, q)
                     /\ At(c.static_args, q).t = "none"

\* The spec leaf (None counting as one) that governs position q.
SpecAt(c, q) == Governing(c.w.in_axes, q)

\* C11, what the code does: the closure holds exactly the leaves under a
\* None of the in_axes spec as given; every other leaf is handed to the
\* backend, also one for which a callable spec returns None.
C11_PartitionBySpec ==
    \A c \in calls :
        \A q \in ArgLeaves(c) :
            IF SpecAt(c, q).t = "none"
            THEN /\ At(c.static_args, q) = At(c.args, q)
                 /\ At(c.dynamic_args, q).t = "none"
            ELSE /\ At(c.dynamic_args, q) = At(c.args, q)
                 /\ At(c.static_args, q).t = "none"

\* With the default in_axes the integer argument, whose resolved axis is
\* None, was handed to the backend, and the call returned.
C11_Witness ==
    \E c \in calls :
        /\ c.w.in_axes = DefaultAxes
        /\ c.args = Args(A0, IntV(1))
        /\ c.in_axes = Tup(<<Leaf(IntV(0)), NoneT>>)
        /\ c.dynamic_args = c.args
        /\ c.static_args = Tup(<<NoneT, NoneT>>)
        /\ ~IsRaise(c.out)

-----------------------------------------------------------------------------
(* The buckets of the parallel map: fun_wrapped traced once on the          *)
(* per-instance arguments of a call, for every function, output axis spec   *)
(* and pair of arguments.                                                   *)

BucketOutAxes ==
    {DefaultAxes, NoneT,
     Tup(<<Leaf(IntV(0)), NoneT>>),
     Tup(<<NoneT, Leaf(IntV(0))>>),
     Tup(<<Leaf(IntV(-1)), NoneT>>),
     Tup(<<Leaf(IntV(-1)), Leaf(IntV(0))>>),
     Tup(<<Leaf(IntV(1)), Leaf(if_array(0))>>)}
    \cup {Leaf(IntV(k)) : k \in (-MaxAxis)..MaxAxis}

BucketInputs ==
    {Input("trace", PW(f, DefaultAxes, oa, "none"), Args(x, y), 0)
        : f \in {"first", "total", "both", "tagged"}, oa \in BucketOutAxes,
          x \in {A0, B0, D0}, y \in {IntV(1), A0}}

\* What the trace of fun_wrapped saw and returned: the function's output,
\* its resolved output axes, and the buckets and broadcast channels (or the
\* exception).
TraceRec(i, art, per) ==
    [op |-> i.op, w |-> i.w, args |-> i.args, nkw |-> i.nkw, R |-> art.R,
     out |-> FunOut(i.w.fun, Combine2(per, art.static).ch[2]),
     out_axes |-> _resolve_axes(FunOut(i.w.fun, Combine2(per, art.static).ch[2]),
                                i.w.out_axes),
     res |-> fun_wrapped(art, per)]

\* The first call of a wrapper up to the trace of fun_wrapped by the backend.
BucketTrace(i) ==
    /\ ncalls = 0
    /\ \E key \in {CacheKey(i.w, i.args, _resolve_axes(i.args, i.w.in_axes))} :
       \E art \in {_filter_pmap_cache(key)} :
           /\ ~IsRaise(art)
           /\ \E per \in {BackendIn(DynamicOf(i.w, i.args), art.in_axes, art.axis_size)} :
                  /\ ~IsRaise(per)
                  /\ calls' = calls \cup {TraceRec(i, art, per)}
           /\ cache' = cache \cup {[key |-> key, id |-> 1, art |-> art]}
           /\ compileLog' = Append(compileLog, key)
           /\ ncalls' = ncalls + 1
           /\ UNCHANGED <<rs, lifted, th>>

NextBuckets == \E i \in BucketInputs : BucketTrace(i)

SpecBuckets == Init /\ [][NextBuckets]_vars

\* The traces that passed the validation of the output axes.
Accepted == {c \in calls : ~IsRaise(c.res)}

\* The tree has no leaf at position q.
Empty(tree, q) == At(tree, q).t # "leaf"

\* C12: a trace that passes the validation returns 2R buckets, bucket j for
\* the axis j - 1 - R; an output leaf with resolved axis i is in the bucket
\* of i and nowhere else, a leaf with resolved axis None is in no bucket
\* and in the live broadcast channel when it is an array, in the static one
\* otherwise; buckets and channels combined give the function's output.
C12_Buckets ==
    \A c \in Accepted :
        LET buckets == c.res.ch[1].ch
            live == c.res.ch[2]
            static == c.res.ch[3]
        IN  /\ Len(buckets) = 2 * c.R
            /\ \A q \in Positions :
                  At(c.out, q).t = "leaf" =>
                      LET x == At(c.out, q)
                          a == At(c.out_axes, q)
                      IN  IF a.t = "leaf"
                          THEN /\ a.x.kind = "int"
                               /\ a.x.n >= -c.R /\ a.x.n < c.R
                               /\ \A j \in 1..(2 * c.R) :
                                     IF j - 1 - c.R = a.x.n
                                     THEN At(buckets[j], q) = x
                                     ELSE Empty(buckets[j], q)
                               /\ Empty(live, q) /\ Empty(static, q)
                          ELSE /\ a.t = "none"
                               /\ \A j \in 1..(2 * c.R) : Empty(buckets[j], q)
                               /\ IF x.x.kind = "arr"
                                  THEN At(live, q) = x /\ Empty(static, q)
                                  ELSE At(static, q) = x /\ Empty(live, q)
            /\ \A q \in Positions :
                  At(c.out, q).t # "leaf" =>
                      /\ \A j \in 1..(2 * c.R) : Empty(buckets[j], q)
                      /\ Empty(live, q) /\ Empty(static, q)
            /\ combine(buckets \o <<Combine2(live, static)>>) = c.out

\* An output (x, 1) with axes (-1, None) and R = 2: x is in the bucket of
\* -1, the integer in the static channel, the other three buckets hold
\* nothing.
C12_Witness ==
    \E c \in Accepted :
        /\ c.w.fun = "both"
        /\ c.w.out_axes = Tup(<<Leaf(IntV(-1)), NoneT>>)
        /\ c.args = Args(B0, IntV(1))
        /\ c.R = 2
        /\ Len(c.res.ch[1].ch) = 4
        /\ c.res.ch[1].ch[2] = Tup(<<c.out.ch[1], NoneT>>)
        /\ c.res.ch[3] = Tup(<<NoneT, Leaf(IntV(1))>>)

====
